---- MODULE Spec2Model ----
(***************************************************************************)
(* A model of pajbot's per-user access layer, src/pajbot/models/user.py:   *)
(* the relational accessor (UserSQL) with its process-wide field cache     *)
(* (UserSQLCache), the key-value accessor (UserRedis) and the combined     *)
(* façade (UserCombined) with its point, debt, token and warning logic.    *)
(*                                                                         *)
(* Python's None is the empty sequence and a present value v is <<v>>, so  *)
(* that "absent" can be compared with any value.                           *)
(***************************************************************************)
EXTENDS Integers, Sequences, FiniteSets, Bags, TLC

\* ------------------------------------------------------------------ bounds
\* Largest point balance a stored row starts with.
MaxPoints == 2
\* Largest amount passed to spend_points / spend_currency_context.
MaxAmount == 3
\* Largest single debt, and the longest debt list create_debt builds.
MaxDebt == 2
MaxDebts == 3
\* Broadcast identifiers 1..MaxSessions, and the largest amount awarded at once.
MaxSessions == 2
MaxTokens == 2
\* Largest total_chances of a warning policy.
MaxChances == 3
\* Largest message count written, and the number of façades constructed in turn.
MaxLines == 1
MaxInstances == 2

None == <<>>
Some(x) == <<x>>
IsNone(o) == o = <<>>
Get(o) == o[1]

Users == {"u1", "u2"}

\* Amounts handed to spend_points: negative, zero, affordable, unaffordable.
Amounts == (0 - 1) .. MaxAmount
DebtAmounts == 1 .. MaxDebt
\* The model keeps balances inside this window (Python integers are unbounded).
MinBalance == 0 - (MaxAmount + MaxDebt)
MaxBalance == MaxPoints + MaxAmount

\* ------------------------------------------------------------------- state
VARIABLES
    \* relational store and UserSQL
    db,                 \* tb_user: username -> None | Some(row)
    cache,              \* UserSQLCache.cache: username -> None | Some(entry)
    username,           \* self.username
    user_model,         \* self.user_model: None | Some(row)
    model_loaded,       \* self.model_loaded
    shared_db_session,  \* whether a db_session was supplied at construction
    sqlLoads,           \* number of select_or_create runs of this instance
    supplied,           \* whether a user_model was supplied at construction
    \* key-value store and UserRedis
    redis,              \* the fields of self.username under <streamer>:users:<key>
    values,             \* self.values: key -> None (no such key) | Some(value)
    redis_loaded,       \* self.redis_loaded
    redisLoads,         \* number of pipeline round trips of this instance
    instance,           \* how many façades were constructed before this one
    written,            \* boolean key -> the last value a setter wrote, and by which façade;
                        \* for subscriber, since this façade was built and the cache cleared
    \* UserCombined's own attributes
    debts, moderator, timed_out, timeout_end,
    \* spend_currency_context: where the with-block is
    ctx,
    \* the token ledger <streamer>:<username>:tokens and its collaborators
    tokens,             \* hash: stream id -> None | Some(stored value)
    stream_id,          \* StreamHelper.get_current_stream_id(): None when it is False
    events,             \* on_user_gain_tokens triggers made by the last call
    first_award,        \* stream id -> the amount a non-forced award set, until
                        \* a forced award or a spend touches the ledger
    \* the warning keys of this user in the key-value store, and the policy
    warnings,           \* the ids whose key <prefix>_<username>_warning_<id> is set
    warning_module,     \* settings: total_chances, base_timeout
    nth,                \* Some(k): k calls with warnings made since no key was set,
                        \* and no key expired since; None otherwise
    \* the last call made on the façade, its argument, result and pre-state
    last

sqlVars == <<db, cache, username, user_model, model_loaded, shared_db_session, sqlLoads, supplied>>
kvVars == <<redis, values, redis_loaded, redisLoads, instance, written>>
facadeVars == <<debts, moderator, timed_out, timeout_end>>
tokenVars == <<tokens, stream_id, events, first_award>>
warnVars == <<warnings, warning_module, nth>>
vars == <<sqlVars, kvVars, facadeVars, ctx, tokenVars, warnVars, last>>

\* ------------------------------------------------------- the relational row
DefaultLevel == 100

\* User.__init__: the record select_or_create builds for an unknown username.
NewUser == [id |-> None, level |-> DefaultLevel, points |-> 0, subscriber |-> FALSE]

\* UserSQL.select_or_create: the stored row, or a new default record.
select_or_create(store, name) ==
    IF IsNone(store[name]) THEN NewUser ELSE Get(store[name])

\* UserSQL.sql_load's early return: the load runs only while model_loaded is false.
sql_load_always == TRUE
sql_load_needed == ~model_loaded

\* self.user_model after sql_load().
ModelAfterLoad ==
    IF sql_load_needed THEN select_or_create(db, username) ELSE Get(user_model)

LoadsAfterLoad == IF sql_load_needed THEN sqlLoads + 1 ELSE sqlLoads

\* UserSQL.points getter: sql_load(), then the record's points.
Balance == ModelAfterLoad.points

\* UserSQL.points setter: sql_load(), then the assignment to the record.
SetPoints(p) ==
    /\ user_model' = Some([ModelAfterLoad EXCEPT !.points = p])
    /\ model_loaded' = TRUE
    /\ sqlLoads' = LoadsAfterLoad

\* A read of self.points that is not followed by a write.
ReadPoints ==
    /\ user_model' = Some(ModelAfterLoad)
    /\ model_loaded' = TRUE
    /\ sqlLoads' = LoadsAfterLoad

InWindow(p) == p >= MinBalance /\ p <= MaxBalance

\* The record of the last call when there was none yet.
NoCall == [op |-> "init", arg |-> 0, ret |-> FALSE, points |-> 0, rt |-> None]

\* ------------------------------------------------ the short-lived cache
\* UserSQLCache.save: the three-field snapshot stored under the username.
Snapshot(user) == [id |-> user.id, level |-> user.level, subscriber |-> user.subscriber]
CacheSaveKeepsOld(c, name, user) ==
    IF IsNone(c[name]) THEN [c EXCEPT ![name] = Some(Snapshot(user))] ELSE c
CacheSave(c, name, user) == [c EXCEPT ![name] = Some(Snapshot(user))]

\* UserSQLCache.get: None stands for NoCacheHit.
CacheFields == {"id", "level", "subscriber"}
CacheGetTruthy(c, name, field) ==
    IF IsNone(c[name]) THEN None
    ELSE IF field \notin CacheFields THEN None
    ELSE LET value == Get(c[name])[field] IN
         IF field = "id" /\ IsNone(value) THEN None
         ELSE IF field = "subscriber" /\ ~value THEN None
         ELSE Some(value)
CacheGet(c, name, field) ==
    IF IsNone(c[name]) THEN None
    ELSE IF field \notin CacheFields THEN None
    ELSE Some(Get(c[name])[field])

\* UserSQLCache._clear_cache, run by the scheduler every 30 minutes.
clear_cache ==
    /\ cache' = [u \in Users |-> None]
    /\ last' = [NoCall EXCEPT !.op = "clear_cache"]
    /\ written' = [written EXCEPT !["subscriber"] = None]
    /\ UNCHANGED <<db, username, user_model, model_loaded, shared_db_session, sqlLoads,
                   supplied, redis, values, redis_loaded, redisLoads, instance,
                   facadeVars, ctx, tokenVars, warnVars>>

\* A lookup made on the cache itself: UserSQLCache.get(name, field).
cache_get(name, field) ==
    /\ last' = [op |-> "cache_get", arg |-> field, ret |-> CacheGet(cache, name, field),
                points |-> 0, rt |-> Some([name |-> name])]
    /\ UNCHANGED <<sqlVars, kvVars, facadeVars, ctx, tokenVars, warnVars>>

\* --------------------------------------------- the relational accessor
\* sql_load() as the first statement of a getter or setter.
SqlLoad ==
    /\ user_model' = Some(ModelAfterLoad)
    /\ model_loaded' = TRUE
    /\ sqlLoads' = LoadsAfterLoad

SqlCall(op, field, ret) ==
    [op |-> op, arg |-> field, ret |-> ret, points |-> 0,
     rt |-> Some([hit |-> ~IsNone(CacheGet(cache, username, field)),
                  model_loaded |-> model_loaded])]

\* The getters id, level and subscriber: the cached value on a hit, else
\* sql_load() and the record's value.
sql_read_loads(field) ==
    /\ ctx.pc = "idle"
    /\ SqlLoad
    /\ last' = SqlCall("sql_read", field, ModelAfterLoad[field])
    /\ UNCHANGED <<db, cache, username, shared_db_session, supplied,
                   kvVars, facadeVars, ctx, tokenVars, warnVars>>
sql_read(field) ==
    LET cached == CacheGet(cache, username, field) IN
    /\ ctx.pc = "idle"
    /\ IF IsNone(cached)
       THEN /\ SqlLoad
            /\ last' = SqlCall("sql_read", field, ModelAfterLoad[field])
       ELSE /\ UNCHANGED <<user_model, model_loaded, sqlLoads>>
            /\ last' = SqlCall("sql_read", field, Get(cached))
    /\ UNCHANGED <<db, cache, username, shared_db_session, supplied,
                   kvVars, facadeVars, ctx, tokenVars, warnVars>>

\* The getter points (not a cached field): sql_load() and the record's value.
read_points ==
    /\ ctx.pc = "idle"
    /\ SqlLoad
    /\ last' = SqlCall("sql_read", "points", Balance)
    /\ UNCHANGED <<db, cache, username, shared_db_session, supplied,
                   kvVars, facadeVars, ctx, tokenVars, warnVars>>

\* The setters id, level and points: sql_load(), then the assignment.
sql_write(field, value) ==
    /\ ctx.pc = "idle"
    /\ user_model' = Some([ModelAfterLoad EXCEPT ![field] = value])
    /\ model_loaded' = TRUE
    /\ sqlLoads' = LoadsAfterLoad
    /\ last' = SqlCall("sql_write", field, value)
    /\ UNCHANGED <<db, cache, username, shared_db_session, supplied,
                   kvVars, facadeVars, ctx, tokenVars, warnVars>>

\* subscriber.setter: nothing when the cache holds the same value.
SubscriberWriteNeverSkipped(value) == FALSE
SubscriberWriteSkipped(value) == CacheGet(cache, username, "subscriber") = Some(value)

write_subscriber(value) ==
    /\ ctx.pc = "idle"
    /\ IF SubscriberWriteSkipped(value)
       THEN UNCHANGED <<user_model, model_loaded, sqlLoads>>
       ELSE /\ user_model' = Some([ModelAfterLoad EXCEPT !.subscriber = value])
            /\ model_loaded' = TRUE
            /\ sqlLoads' = LoadsAfterLoad
    /\ last' = SqlCall("write_subscriber", "subscriber", value)
    /\ written' = [written EXCEPT !["subscriber"] = Some([value |-> value, by |-> instance])]
    /\ UNCHANGED <<db, cache, username, shared_db_session, supplied,
                   redis, values, redis_loaded, redisLoads, instance,
                   facadeVars, ctx, tokenVars, warnVars>>

\* The identity the store gives a row on its first insert.
StoreId(name) == IF name = "u1" THEN 1 ELSE 2

\* sql_save: nothing unless loaded; session.add + commit when save_to_db and
\* no shared session (the insert assigns the identity); then UserSQLCache.save.
sql_save(save_to_db) ==
    /\ ctx.pc = "idle"
    /\ IF ~model_loaded
       THEN UNCHANGED <<db, cache, user_model>>
       ELSE LET persist == save_to_db /\ ~shared_db_session
                user == IF persist /\ IsNone(Get(user_model).id)
                        THEN [Get(user_model) EXCEPT !.id = Some(StoreId(username))]
                        ELSE Get(user_model)
            IN /\ db' = IF persist THEN [db EXCEPT ![username] = Some(user)] ELSE db
               /\ user_model' = Some(user)
               /\ cache' = CacheSave(cache, username, user)
    /\ last' = [op |-> "sql_save", arg |-> "", ret |-> save_to_db, points |-> 0,
                rt |-> Some([hit |-> FALSE, model_loaded |-> model_loaded])]
    /\ UNCHANGED <<username, model_loaded, shared_db_session, sqlLoads, supplied,
                   kvVars, facadeVars, ctx, tokenVars, warnVars>>

\* ------------------------------------------------- the key-value accessor
\* UserRedis.FULL_KEYS = SS_KEYS + HASH_KEYS + BOOL_KEYS, in this order.
SS_KEYS == <<"num_lines">>
HASH_KEYS == <<"last_seen", "last_active", "username_raw">>
BOOL_KEYS == <<"ignored", "banned">>
FULL_KEYS == SS_KEYS \o HASH_KEYS \o BOOL_KEYS

Elems(seq) == {seq[i] : i \in DOMAIN seq}

\* fix_ss: int(value), and SS_DEFAULTS[key] = 0 when zscore found no member.
fix_ss(key, value) == IF IsNone(value) THEN 0 ELSE Get(value)

\* `value or default`: None and the empty string both give the default.
Falsy(value) == IsNone(value) \/ Get(value) = ""

\* fix_hash: value or self.username for username_raw, value or None otherwise.
fix_hash(key, value) ==
    IF key = "username_raw"
    THEN (IF Falsy(value) THEN username ELSE Get(value))
    ELSE (IF Falsy(value) THEN None ELSE value)

\* fix_bool: False if value is None else True.
fix_bool_by_content(key, value) == ~IsNone(value) /\ Get(value) = "1"
fix_bool(key, value) == ~IsNone(value)

\* queue_up_redis_calls + pipeline.execute(): one answer per key of FULL_KEYS.
PipelineData == [i \in DOMAIN FULL_KEYS |-> redis[FULL_KEYS[i]]]

\* load_redis_data: the i-th answer is decoded as the i-th key of FULL_KEYS.
load_redis_data(data) ==
    [key \in Elems(FULL_KEYS) |->
        LET i == CHOOSE j \in DOMAIN FULL_KEYS : FULL_KEYS[j] = key IN
        IF key \in Elems(SS_KEYS) THEN Some(fix_ss(key, data[i]))
        ELSE IF key \in Elems(HASH_KEYS) THEN Some(fix_hash(key, data[i]))
        ELSE Some(fix_bool(key, data[i]))]

\* UserRedis.redis_load's early return.
redis_load_needed == ~redis_loaded

\* self.values after redis_load().
ValuesAfterLoad == IF redis_load_needed THEN load_redis_data(PipelineData) ELSE values

\* redis_load(), as the first statement of every getter.
RedisLoad ==
    /\ values' = ValuesAfterLoad
    /\ redis_loaded' = (redis_loaded \/ redis_load_needed)
    /\ redisLoads' = IF redis_load_needed THEN redisLoads + 1 ELSE redisLoads

NoValues == [key \in Elems(FULL_KEYS) |-> None]
NoWrites == [key \in Elems(BOOL_KEYS) \cup {"subscriber"} |-> None]

\* What the username_raw setter does to the store: hset, or hdel when the
\* name is the username itself.
StoreUsernameRaw(store, name, value) ==
    [store EXCEPT !.username_raw = IF value # name THEN Some(value) ELSE None]

\* The getters num_lines, username_raw, ignored, banned.
kv_read(key) ==
    /\ ctx.pc = "idle"
    /\ RedisLoad
    /\ last' = [op |-> "kv_read", arg |-> key, ret |-> Get(ValuesAfterLoad[key]), points |-> 0,
                rt |-> Some([loaded_now |-> redis_load_needed, redisLoads |-> redisLoads])]
    /\ UNCHANGED <<sqlVars, redis, instance, written, facadeVars, ctx, tokenVars, warnVars>>

KvWrite(key, value, store) ==
    /\ ctx.pc = "idle"
    /\ values' = [values EXCEPT ![key] = Some(value)]
    /\ redis' = store
    /\ last' = [op |-> "kv_write", arg |-> key, ret |-> value, points |-> 0,
                rt |-> Some([loaded_now |-> FALSE, redisLoads |-> redisLoads])]
    /\ UNCHANGED <<sqlVars, redis_loaded, redisLoads, instance, facadeVars, ctx, tokenVars, warnVars>>

\* num_lines.setter: zadd for a non-zero count, zrem for zero.
write_num_lines(value) ==
    /\ KvWrite("num_lines", value,
               [redis EXCEPT !.num_lines = IF value # 0 THEN Some(value) ELSE None])
    /\ UNCHANGED written

\* username_raw.setter
write_username_raw(value) ==
    /\ KvWrite("username_raw", value, StoreUsernameRaw(redis, username, value))
    /\ UNCHANGED written

\* ignored.setter / banned.setter: hset 1 when value is True, hdel otherwise.
BoolSetter(store, key, value) ==
    [store EXCEPT ![key] = IF value = TRUE THEN Some("1") ELSE None]

write_bool(key, value) ==
    /\ KvWrite(key, value, BoolSetter(redis, key, value))
    /\ written' = [written EXCEPT ![key] = Some([value |-> value, by |-> instance])]

\* UserCombined.__init__ for `name`: UserRedis.__init__, UserSQL.__init__ with
\* or without a record and a session, then self.username_raw = username
\* through the setter, then the façade's own attributes.
construct(name, with_model, with_session) ==
    /\ ctx.pc = "idle"
    /\ instance < MaxInstances
    /\ instance' = instance + 1
    /\ username' = name
    /\ user_model' = IF with_model THEN Some(select_or_create(db, name)) ELSE None
    /\ model_loaded' = with_model
    /\ supplied' = with_model
    /\ shared_db_session' = with_session
    /\ sqlLoads' = 0
    /\ redis_loaded' = FALSE
    /\ redisLoads' = 0
    /\ values' = [NoValues EXCEPT !["username_raw"] = Some(name)]
    /\ redis' = StoreUsernameRaw(redis, name, name)
    /\ debts' = <<>> /\ moderator' = FALSE /\ timed_out' = FALSE /\ timeout_end' = None
    /\ last' = [NoCall EXCEPT !.op = "construct"]
    /\ written' = [written EXCEPT !["subscriber"] = None]
    /\ UNCHANGED <<db, cache, ctx, tokenVars, warnVars>>

NoFields == [num_lines |-> None, last_seen |-> None, last_active |-> None,
             username_raw |-> None, ignored |-> None, banned |-> None]

\* The key-value side right after UserCombined.__init__, on an empty store.
InitKVConstructed ==
    /\ redis = NoFields
    /\ values = [NoValues EXCEPT !["username_raw"] = Some("u1")]
    /\ redis_loaded = FALSE
    /\ redisLoads = 0
    /\ instance = 0
    /\ written = NoWrites

\* ------------------------------------------------------------ the façade
\* The record of a call: the operation, its argument, its result, the balance
\* it found, and (rt) what a later call needs to know of the state before it.
Call(op, arg, ret, rt) ==
    [op |-> op, arg |-> arg, ret |-> ret, points |-> Balance, rt |-> rt]


\* UserCombined.spend_points as a function of the balance: the result and the
\* balance it leaves.
SpendPointsNoCheck(points, n) == [ret |-> TRUE, points |-> points - n]
SpendPoints(points, n) ==
    IF n <= points THEN [ret |-> TRUE, points |-> points - n]
                   ELSE [ret |-> FALSE, points |-> points]

spend_points(n) ==
    LET r == SpendPoints(Balance, n) IN
    /\ ctx.pc = "idle"
    /\ InWindow(r.points)
    /\ IF r.ret THEN SetPoints(r.points) ELSE ReadPoints
    /\ last' = Call("spend_points", n, r.ret, None)
    /\ UNCHANGED <<kvVars, db, cache, username, shared_db_session, supplied, facadeVars, ctx, tokenVars, warnVars>>

\* UserCombined.load(**attrs): the owner restores the attributes save() returned.
TimeoutEnds == {None, Some("t1")}
load(d, m, t, e) ==
    /\ ctx.pc = "idle"
    /\ debts' = d /\ moderator' = m /\ timed_out' = t /\ timeout_end' = e
    /\ last' = Call("load", 0, TRUE, None)
    /\ UNCHANGED <<kvVars, sqlVars, ctx, tokenVars, warnVars>>

\* UserCombined.create_debt
create_debt(d) ==
    /\ ctx.pc = "idle"
    /\ Len(debts) < MaxDebts
    /\ debts' = Append(debts, d)
    /\ last' = Call("create_debt", d, TRUE, Some(debts))
    /\ UNCHANGED <<kvVars, sqlVars, moderator, timed_out, timeout_end, ctx, tokenVars, warnVars>>

\* list.remove(x): the list without its first element equal to x; the list
\* itself when there is none (Python raises ValueError, remove_debt logs it).
RECURSIVE RemoveFirst(_, _)
RemoveFirst(s, x) ==
    IF s = <<>> THEN <<>>
    ELSE IF Head(s) = x THEN Tail(s)
    ELSE <<Head(s)>> \o RemoveFirst(Tail(s), x)

RemoveNothing(ds, d) == ds
remove_debt(ds, d) == RemoveFirst(ds, d)

\* Whether remove_debt lets the ValueError out: its except clause logs it.
remove_debt_uncaught(ds, d) == \A i \in DOMAIN ds : ds[i] # d
remove_debt_raises(ds, d) == FALSE

\* UserCombined.pay_debt: self.points -= debt; self.remove_debt(debt)
pay_debt(d) ==
    /\ ctx.pc = "idle"
    /\ InWindow(Balance - d)
    /\ SetPoints(Balance - d)
    /\ debts' = remove_debt(debts, d)
    /\ last' = Call("pay_debt", d, ~remove_debt_raises(debts, d),
                    IF last.op = "create_debt" /\ last.arg = d
                    THEN Some([points |-> last.points, debts |-> Get(last.rt)])
                    ELSE None)
    /\ UNCHANGED <<kvVars, db, cache, username, shared_db_session, supplied, moderator, timed_out, timeout_end, ctx, tokenVars, warnVars>>

RECURSIVE Sum(_)
Sum(s) == IF s = <<>> THEN 0 ELSE Head(s) + Sum(Tail(s))

\* UserCombined.points_in_debt / points_available / can_afford
points_in_debt == Sum(debts)
points_available == Balance - points_in_debt
can_afford(n) == points_available >= n

\* A call of points_available(): the value it returns is kept in last.arg.
call_points_available ==
    /\ ctx.pc = "idle"
    /\ ReadPoints
    /\ last' = Call("points_available", points_available, TRUE, None)
    /\ UNCHANGED <<kvVars, db, cache, username, shared_db_session, supplied, facadeVars, ctx, tokenVars, warnVars>>

\* A call of can_afford(n): the boolean it returns is kept in last.ret.
call_can_afford(n) ==
    /\ ctx.pc = "idle"
    /\ ReadPoints
    /\ last' = Call("can_afford", n, can_afford(n), None)
    /\ UNCHANGED <<kvVars, db, cache, username, shared_db_session, supplied, facadeVars, ctx, tokenVars, warnVars>>

\* ------------------------------------------------ spend_currency_context
\* The with-block: __enter__ runs the generator up to its yield, the body is
\* the caller's action (it does not touch this user here), and __exit__ throws
\* the body's exception, if any, into the generator at the yield.
Failures == {"FailedCommand", "other"}
CtxIdle == [pc |-> "idle", p |-> 0, entry |-> 0, failure |-> "none", raised |-> FALSE]

\* try: self.spend_points(points_to_spend); yield  (the result is not looked at)
ctx_enter(p) ==
    LET r == SpendPoints(Balance, p) IN
    /\ ctx.pc = "idle"
    /\ InWindow(r.points) /\ InWindow(Balance + p)
    /\ IF r.ret THEN SetPoints(r.points) ELSE ReadPoints
    /\ ctx' = [pc |-> "body", p |-> p, entry |-> Balance, failure |-> "none", raised |-> FALSE]
    /\ last' = Call("ctx_enter", p, r.ret, None)
    /\ UNCHANGED <<kvVars, db, cache, username, shared_db_session, supplied, facadeVars, tokenVars, warnVars>>

\* The body ends without an exception: the generator runs off its end.
ctx_exit_ok ==
    /\ ctx.pc = "body"
    /\ ctx' = [ctx EXCEPT !.pc = "done"]
    /\ last' = Call("ctx_exit", ctx.p, TRUE, None)
    /\ UNCHANGED <<kvVars, sqlVars, facadeVars, tokenVars, warnVars>>

\* Both except clauses: self.points += points_to_spend.
CtxRefund(points, p) == points + p

\* Neither except clause ends in a raise: the generator returns after the
\* handler, so contextmanager's __exit__ reports the exception as handled.
CtxReraises == FALSE

\* The body raises f: the matching except clause runs.
ctx_exit_fail(f) ==
    /\ ctx.pc = "body"
    \* log.debug(... self.username_raw): the getter runs redis_load()
    /\ RedisLoad
    /\ SetPoints(CtxRefund(Balance, ctx.p))
    /\ ctx' = [ctx EXCEPT !.pc = "done", !.failure = f, !.raised = CtxReraises]
    /\ last' = Call("ctx_exit", ctx.p, FALSE, None)
    /\ UNCHANGED <<redis, instance, written, db, cache, username, shared_db_session, supplied, facadeVars, tokenVars, warnVars>>

\* The caller goes on after the with-statement.
ctx_leave ==
    /\ ctx.pc = "done"
    /\ ctx' = CtxIdle
    /\ UNCHANGED <<kvVars, sqlVars, facadeVars, tokenVars, warnVars, last>>

\* ------------------------------------------------------ the token ledger
Sessions == 1 .. MaxSessions
TokenAmounts == 0 .. MaxTokens

\* A stored hash value: the decimal text of n, or text int() cannot parse.
IntText(n) == [int |-> TRUE, n |-> n]
BadText == [int |-> FALSE, n |-> 0]

\* int(value): None stands for the TypeError / ValueError both loops catch.
ParseInt(v) == IF v.int THEN Some(v.n) ELSE None

NoSessions == [sid \in Sessions |-> None]

InitNoWarnings ==
    /\ warnings = {}
    /\ warning_module = [total_chances |-> 0, base_timeout |-> 0]
    /\ nth = None

InitNoTokens ==
    /\ tokens = NoSessions
    /\ stream_id = None
    /\ events = 0
    /\ first_award = NoSessions

Min(a, b) == IF a <= b THEN a ELSE b

\* The fields hgetall returns.
Fields(led) == {sid \in Sessions : ~IsNone(led[sid])}

\* The orders in which a dict of these fields can be iterated.
Orders(S) == {o \in [1 .. Cardinality(S) -> S] : \A i, j \in DOMAIN o : i # j => o[i] # o[j]}

\* UserCombined.spend_tokens: the loop over token_dict in the order `order`,
\* writing each decremented entry back; led is the stored hash.
RECURSIVE SpendTokensNoMin(_, _, _)
SpendTokensNoMin(led, order, n) ==
    IF order = <<>> THEN [ret |-> FALSE, tokens |-> led]
    ELSE LET sid == Head(order)
             parsed == ParseInt(Get(led[sid]))
         IN IF IsNone(parsed) \/ Get(parsed) = 0 THEN SpendTokensNoMin(led, Tail(order), n)
            ELSE [ret |-> TRUE,
                  tokens |-> [led EXCEPT ![sid] = Some(IntText(Get(parsed) - n))]]
RECURSIVE SpendTokens(_, _, _)
SpendTokens(led, order, n) ==
    IF order = <<>> THEN [ret |-> FALSE, tokens |-> led]
    ELSE LET sid == Head(order)
             parsed == ParseInt(Get(led[sid]))
         IN IF IsNone(parsed) THEN SpendTokens(led, Tail(order), n)
            ELSE IF Get(parsed) = 0 THEN SpendTokens(led, Tail(order), n)
            ELSE LET decrease_by == Min(n, Get(parsed))
                     left == n - decrease_by
                     stored == [led EXCEPT ![sid] = Some(IntText(Get(parsed) - decrease_by))]
                 IN IF left = 0 THEN [ret |-> TRUE, tokens |-> stored]
                    ELSE SpendTokens(stored, Tail(order), left)

\* The record of a ledger call: rt keeps the ledger and the stream id it found.
TokenCall(op, arg, ret, force) ==
    [op |-> op, arg |-> arg, ret |-> ret, points |-> 0,
     rt |-> Some([tokens |-> tokens, stream_id |-> stream_id, force |-> force])]

spend_tokens(n) ==
    \E order \in Orders(Fields(tokens)) :
        LET r == SpendTokens(tokens, order, n) IN
        /\ tokens' = r.tokens
        /\ events' = 0
        /\ first_award' = NoSessions
        /\ last' = TokenCall("spend_tokens", n, r.ret, FALSE)
        /\ UNCHANGED <<kvVars, sqlVars, facadeVars, ctx, stream_id, warnVars>>

\* UserCombined.award_tokens as a function of the ledger, the current stream
\* id, the amount and force: the result, the ledger and the events triggered.
AwardTokensOverwrite(led, sid, amount, force) ==
    IF IsNone(sid) THEN [ret |-> FALSE, tokens |-> led, events |-> 0]
    ELSE [ret |-> TRUE, tokens |-> [led EXCEPT ![Get(sid)] = Some(IntText(amount))],
          events |-> IF force THEN 0 ELSE 1]
AwardTokensNotifyForced(led, sid, amount, force) ==
    IF IsNone(sid) THEN [ret |-> FALSE, tokens |-> led, events |-> 0]
    ELSE IF force \/ IsNone(led[Get(sid)])
    THEN [ret |-> TRUE, tokens |-> [led EXCEPT ![Get(sid)] = Some(IntText(amount))], events |-> 1]
    ELSE [ret |-> FALSE, tokens |-> led, events |-> 0]
AwardTokens(led, sid, amount, force) ==
    IF IsNone(sid) THEN [ret |-> FALSE, tokens |-> led, events |-> 0]
    ELSE IF force
    THEN [ret |-> TRUE, tokens |-> [led EXCEPT ![Get(sid)] = Some(IntText(amount))], events |-> 0]
    \* hsetnx: sets the field and answers 1 only when the field does not exist
    ELSE IF IsNone(led[Get(sid)])
    THEN [ret |-> TRUE, tokens |-> [led EXCEPT ![Get(sid)] = Some(IntText(amount))], events |-> 1]
    ELSE [ret |-> FALSE, tokens |-> led, events |-> 0]

award_tokens(amount, force) ==
    LET r == AwardTokens(tokens, stream_id, amount, force) IN
    /\ tokens' = r.tokens
    /\ events' = r.events
    /\ first_award' =
         IF IsNone(stream_id) THEN first_award
         ELSE IF force THEN [first_award EXCEPT ![Get(stream_id)] = None]
         ELSE IF r.ret THEN [first_award EXCEPT ![Get(stream_id)] = Some(amount)]
         ELSE first_award
    /\ last' = TokenCall("award_tokens", amount, r.ret, force)
    /\ UNCHANGED <<kvVars, sqlVars, facadeVars, ctx, stream_id, warnVars>>

\* UserCombined.get_tokens: the sum of the values int() parses.
RECURSIVE SumTokens(_, _)
SumTokens(led, S) ==
    IF S = {} THEN 0
    ELSE LET sid == CHOOSE x \in S : TRUE
             parsed == ParseInt(Get(led[sid]))
         IN (IF IsNone(parsed) THEN 0 ELSE Get(parsed)) + SumTokens(led, S \ {sid})
get_tokens(led) == SumTokens(led, Fields(led))

\* The broadcast starts, ends or is followed by another one.
stream_change(sid) ==
    /\ stream_id # sid
    /\ stream_id' = sid
    /\ last' = [NoCall EXCEPT !.op = "stream_change"]
    /\ UNCHANGED <<kvVars, sqlVars, facadeVars, ctx, tokens, events, first_award, warnVars>>

\* ------------------------------------------------ specification: tokens
StoredTokens == {None, Some(BadText)} \cup {Some(IntText(n)) : n \in TokenAmounts}

InitTokens ==
    /\ username = "u1"
    /\ db = [u \in Users |-> None]
    /\ cache = [u \in Users |-> None]
    /\ user_model = None /\ model_loaded = FALSE
    /\ shared_db_session = FALSE /\ sqlLoads = 0 /\ supplied = FALSE
    /\ InitKVConstructed
    /\ debts = <<>> /\ moderator = FALSE /\ timed_out = FALSE /\ timeout_end = None
    /\ ctx = CtxIdle
    /\ last = NoCall
    /\ tokens \in [Sessions -> StoredTokens]
    /\ stream_id \in {None} \cup {Some(sid) : sid \in Sessions}
    /\ events = 0
    /\ first_award = NoSessions
    /\ InitNoWarnings

NextTokens ==
    \* amounts up to one more than the ledger holds
    \/ \E n \in 0 .. (get_tokens(tokens) + 1) : spend_tokens(n)
    \/ \E a \in TokenAmounts, force \in BOOLEAN : award_tokens(a, force)
    \/ \E sid \in {None} \cup {Some(x) : x \in Sessions} : stream_change(sid)

SpecTokens == InitTokens /\ [][NextTokens]_vars

\* ------------------------------------------------------------- timeout
\* get_warning_keys: one key per chance, ids 0 .. total_chances - 1.
get_warning_keys(total_chances) == 0 .. (total_chances - 1)

\* get_warnings / get_chances_used: the number of keys mget finds set.
get_chances_used(ws, keys) == Cardinality({id \in keys : id \in ws})

\* add_warning: setex on the first key that mget found unset.
add_warning(ws, keys) ==
    IF \E id \in keys : id \notin ws
    THEN ws \cup {CHOOSE id \in keys : id \notin ws /\ \A other \in keys : other \notin ws => id <= other}
    ELSE ws

\* The punishment string: 'timed out for N seconds', with ' (warning)' or not.
Punishment(seconds, warning) == [seconds |-> seconds, warning |-> warning]

\* UserCombined.timeout: the pair it returns and the keys it leaves set.
\* policy is None when no warning_module is passed.
TimeoutOffByOne(ws, timeout_length, policy, use_warnings) ==
    IF use_warnings /\ ~IsNone(policy)
          /\ get_chances_used(ws, get_warning_keys(Get(policy).total_chances)) < Get(policy).total_chances
    THEN LET keys == get_warning_keys(Get(policy).total_chances)
             length == Get(policy).base_timeout * get_chances_used(ws, keys)
         IN [timeout_length |-> length, punishment |-> Punishment(length, TRUE),
             warnings |-> add_warning(ws, keys)]
    ELSE [timeout_length |-> timeout_length, punishment |-> Punishment(timeout_length, FALSE),
          warnings |-> ws]
Timeout(ws, timeout_length, policy, use_warnings) ==
    IF use_warnings /\ ~IsNone(policy)
    THEN LET total_chances == Get(policy).total_chances
             keys == get_warning_keys(total_chances)
             chances_used == get_chances_used(ws, keys)
         IN IF chances_used < total_chances
            THEN LET length == Get(policy).base_timeout * (chances_used + 1)
                 IN [timeout_length |-> length, punishment |-> Punishment(length, TRUE),
                     warnings |-> add_warning(ws, keys)]
            ELSE [timeout_length |-> timeout_length,
                  punishment |-> Punishment(timeout_length, FALSE), warnings |-> ws]
    ELSE [timeout_length |-> timeout_length,
          punishment |-> Punishment(timeout_length, FALSE), warnings |-> ws]

timeout(timeout_length, policy, use_warnings) ==
    LET r == Timeout(warnings, timeout_length, policy, use_warnings)
        enabled == use_warnings /\ ~IsNone(policy)
        \* calls past the last chance all count as total_chances + 1
        k == IF enabled /\ ~IsNone(nth)
             THEN Some(Min(Get(nth) + 1, warning_module.total_chances + 1))
             ELSE nth
    IN /\ warnings' = r.warnings
       /\ nth' = k
       /\ last' = [op |-> "timeout", arg |-> timeout_length, ret |-> enabled, points |-> 0,
                   rt |-> Some([before |-> warnings, after |-> r.warnings, k |-> k,
                                timeout_length |-> r.timeout_length,
                                punishment |-> r.punishment])]
       /\ UNCHANGED <<kvVars, sqlVars, facadeVars, ctx, tokenVars, warning_module>>

\* A warning key reaches the end of its lifetime (setex's time).
expire(id) ==
    /\ id \in warnings
    /\ warnings' = warnings \ {id}
    /\ nth' = IF warnings' = {} THEN Some(0) ELSE None
    /\ last' = [NoCall EXCEPT !.op = "expire"]
    /\ UNCHANGED <<kvVars, sqlVars, facadeVars, ctx, tokenVars, warning_module>>

\* ----------------------------------------------- specification: timeout
RequestedLengths == {5, 600}
BaseTimeouts == {10, 30}

InitTimeout ==
    /\ username = "u1"
    /\ db = [u \in Users |-> None]
    /\ cache = [u \in Users |-> None]
    /\ user_model = None /\ model_loaded = FALSE
    /\ shared_db_session = FALSE /\ sqlLoads = 0 /\ supplied = FALSE
    /\ InitKVConstructed
    /\ debts = <<>> /\ moderator = FALSE /\ timed_out = FALSE /\ timeout_end = None
    /\ ctx = CtxIdle
    /\ last = NoCall
    /\ InitNoTokens
    /\ warning_module \in [total_chances : 0 .. MaxChances, base_timeout : BaseTimeouts]
    /\ warnings \in SUBSET get_warning_keys(warning_module.total_chances)
    /\ nth = IF warnings = {} THEN Some(0) ELSE None

NextTimeout ==
    \/ \E len \in RequestedLengths, policy \in {None, Some(warning_module)}, use \in BOOLEAN :
          timeout(len, policy, use)
    \/ \E id \in get_warning_keys(warning_module.total_chances) : expire(id)

SpecTimeout == InitTimeout /\ [][NextTimeout]_vars

\* ------------------------------------------------ specification: points
DebtLists == {<<>>} \cup {<<d>> : d \in DebtAmounts}

StoredRows == {[id |-> Some(1), level |-> DefaultLevel, points |-> b, subscriber |-> FALSE] :
                 b \in 0 .. MaxPoints}

InitPoints ==
    /\ username = "u1"
    /\ \E row \in {None} \cup {Some(r) : r \in StoredRows} :
          /\ db = [u \in Users |-> IF u = "u1" THEN row ELSE None]
          \* UserSQL.__init__: model_loaded = user_model is not None
          /\ user_model \in {None, row}
          /\ model_loaded = ~IsNone(user_model)
    /\ cache = [u \in Users |-> None]
    /\ shared_db_session = FALSE
    /\ sqlLoads = 0
    /\ supplied = model_loaded
    /\ InitKVConstructed
    /\ debts = <<>> /\ moderator = FALSE /\ timed_out = FALSE /\ timeout_end = None
    /\ ctx = CtxIdle
    /\ last = NoCall
    /\ InitNoTokens
    /\ InitNoWarnings

NextPoints ==
    \/ \E n \in Amounts : spend_points(n)
    \/ \E d \in DebtLists, m \in BOOLEAN, t \in BOOLEAN, e \in TimeoutEnds : load(d, m, t, e)
    \/ \E p \in Amounts : ctx_enter(p)
    \/ ctx_exit_ok
    \/ \E f \in Failures : ctx_exit_fail(f)
    \/ ctx_leave

SpecPoints == InitPoints /\ [][NextPoints]_vars

\* ------------------------------------------------- specification: debts
NextDebt ==
    \/ \E n \in Amounts : spend_points(n)
    \/ \E d \in DebtAmounts : create_debt(d)
    \/ \E d \in DebtAmounts : pay_debt(d)
    \/ call_points_available
    \/ \E n \in Amounts : call_can_afford(n)

SpecDebt == InitPoints /\ [][NextDebt]_vars

\* ------------------------- specification: debts taken only when affordable
\* create_debt only when can_afford, spend_points of amounts from 0, pay_debt
\* only of a debt in the list; from a balance of 0 or more and no debts.
NextReserve ==
    \/ \E d \in DebtAmounts : can_afford(d) /\ create_debt(d)
    \/ \E n \in 0 .. MaxAmount : spend_points(n)
    \/ \E d \in DebtAmounts : (\E i \in DOMAIN debts : debts[i] = d) /\ pay_debt(d)

SpecReserve == InitPoints /\ [][NextReserve]_vars

\* ----------------------------------------- specification: key-value fields
KvReadKeys == {"num_lines", "username_raw", "ignored", "banned"}
\* What another writer may have left in a boolean hash field.
StoredFlags == {None, Some("1"), Some("0")}
DisplayNames == {"u1", "U1", ""}

InitSqlConstructed ==
    /\ username = "u1"
    /\ cache = [u \in Users |-> None]
    /\ user_model = None /\ model_loaded = FALSE
    /\ shared_db_session = FALSE /\ sqlLoads = 0 /\ supplied = FALSE

InitFacade ==
    /\ debts = <<>> /\ moderator = FALSE /\ timed_out = FALSE /\ timeout_end = None
    /\ ctx = CtxIdle
    /\ last = NoCall
    /\ InitNoTokens
    /\ InitNoWarnings

InitKV ==
    /\ InitSqlConstructed
    /\ db = [u \in Users |-> None]
    /\ InitFacade
    \* the constructor has deleted the stored display name
    /\ \E n \in {None} \cup {Some(k) : k \in 1 .. MaxLines}, i \in StoredFlags, b \in StoredFlags :
          redis = [NoFields EXCEPT !.num_lines = n, !.ignored = i, !.banned = b]
    /\ values = [NoValues EXCEPT !["username_raw"] = Some("u1")]
    /\ redis_loaded = FALSE
    /\ redisLoads = 0
    /\ instance = 0
    /\ written = NoWrites

NextKV ==
    \/ \E key \in KvReadKeys : kv_read(key)
    \/ \E n \in 0 .. MaxLines : write_num_lines(n)
    \/ \E name \in DisplayNames : write_username_raw(name)
    \/ \E key \in Elems(BOOL_KEYS), value \in BOOLEAN : write_bool(key, value)
    \/ construct(username, FALSE, FALSE)

SpecKV == InitKV /\ [][NextKV]_vars

\* ------------------------------------- specification: the two lazy loads
StoredUsers == {[id |-> Some(StoreId("u1")), level |-> l, points |-> 0, subscriber |-> sub] :
                  l \in {DefaultLevel}, sub \in BOOLEAN}

InitLoad ==
    /\ username = "u1"
    /\ cache = [u \in Users |-> None]
    /\ \E row \in {None} \cup {Some(r) : r \in StoredUsers} :
          /\ db = [u \in Users |-> IF u = "u1" THEN row ELSE None]
          /\ user_model \in {None, row}
    /\ model_loaded = ~IsNone(user_model)
    /\ supplied = model_loaded
    /\ shared_db_session = FALSE
    /\ sqlLoads = 0
    /\ InitFacade
    /\ redis = NoFields
    /\ values = [NoValues EXCEPT !["username_raw"] = Some("u1")]
    /\ redis_loaded = FALSE
    /\ redisLoads = 0
    /\ instance = 0
    /\ written = NoWrites

NextLoad ==
    \/ \E field \in CacheFields : sql_read(field)
    \/ read_points
    \/ \E value \in {500} : sql_write("level", value)
    \/ \E value \in BOOLEAN : write_subscriber(value)
    \/ \E save_to_db \in BOOLEAN : sql_save(save_to_db)
    \/ clear_cache
    \/ \E key \in {"banned"} : kv_read(key)
    \/ \E value \in BOOLEAN : write_bool("banned", value)
    \/ \E with_model \in BOOLEAN, with_session \in BOOLEAN :
          construct(username, with_model, with_session)

SpecLoad == InitLoad /\ [][NextLoad]_vars

\* ---------------------- specification: the relational accessor and its cache
Levels == {500}
OtherFields == {"minutes_in_chat_online"}

StoredRowsOf(name) ==
    {None} \cup {Some([id |-> Some(StoreId(name)), level |-> DefaultLevel, points |-> 0,
                       subscriber |-> sub]) : sub \in BOOLEAN}

InitSQL ==
    /\ username = "u1"
    /\ user_model = None /\ model_loaded = FALSE
    /\ shared_db_session = FALSE /\ sqlLoads = 0 /\ supplied = FALSE
    /\ \E r1 \in StoredRowsOf("u1") :
          db = [u \in Users |-> IF u = "u1" THEN r1 ELSE None]
    \* a façade for the other username may have saved its record before
    /\ \E e2 \in {None, Some(Snapshot(NewUser))} :
          cache = [u \in Users |-> IF u = "u1" THEN None ELSE e2]
    /\ InitFacade
    /\ redis = NoFields
    /\ values = [NoValues EXCEPT !["username_raw"] = Some("u1")]
    /\ redis_loaded = FALSE
    /\ redisLoads = 0
    /\ instance = 0
    /\ written = NoWrites

NextSQL ==
    \/ \E field \in CacheFields : sql_read(field)
    \/ \E value \in Levels : sql_write("level", value)
    \/ \E value \in BOOLEAN : write_subscriber(value)
    \/ \E save_to_db \in BOOLEAN : sql_save(save_to_db)
    \/ clear_cache
    \/ \E name \in Users, field \in CacheFields \cup OtherFields : cache_get(name, field)
    \/ \E with_model \in BOOLEAN, with_session \in BOOLEAN :
          construct(username, with_model, with_session)

SpecSQL == InitSQL /\ [][NextSQL]_vars

\* ------------------------------------------------------------------ claims
Pre == Get(last.rt)

\* C1: spend_points(n) on a balance b returns true and leaves b - n when
\* n <= b, returns false and leaves b when n > b, and changes neither the
\* debts nor the moderator and timeout attributes.
C1_SpendPoints ==
    [][\A n \in Amounts :
         spend_points(n) =>
            /\ IF n <= Balance
               THEN last'.ret = TRUE /\ Balance' = Balance - n
               ELSE last'.ret = FALSE /\ Balance' = Balance
            /\ UNCHANGED facadeVars]_vars

C1_Witness ==
    /\ last.op = "spend_points" /\ last.ret = FALSE /\ last.arg > last.points
    /\ debts # <<>> /\ moderator /\ timed_out

\* C2: when the action wrapped by spend_currency_context fails, the balance
\* after the context equals the balance before entering it, for every
\* points_to_spend, also one above the balance.
C2_BalanceRestored ==
    (ctx.pc = "done" /\ ctx.failure # "none") => Balance = ctx.entry

\* C3: when the wrapped action fails, the failure reaches the caller of the
\* context after the refund: it is re-raised, not swallowed.
C3_FailurePropagates ==
    (ctx.pc = "done" /\ ctx.failure # "none") => ctx.raised

\* C4: with a stream active, a non-forced award_tokens returns true exactly
\* when the stream's field did not exist and otherwise leaves the field as it
\* was, a forced one returns true and overwrites; so while only non-forced
\* awards follow, the field keeps the amount of the first award.
C4_OncePerSession ==
    /\ (last.op = "award_tokens" /\ ~IsNone(Pre.stream_id)) =>
          LET sid == Get(Pre.stream_id) IN
          IF Pre.force
          THEN last.ret = TRUE /\ tokens[sid] = Some(IntText(last.arg))
          ELSE /\ last.ret = IsNone(Pre.tokens[sid])
               /\ last.ret => tokens[sid] = Some(IntText(last.arg))
               /\ ~last.ret => tokens[sid] = Pre.tokens[sid]
    /\ \A sid \in Sessions :
          ~IsNone(first_award[sid]) => tokens[sid] = Some(IntText(Get(first_award[sid])))

C4_Witness ==
    /\ last.op = "award_tokens" /\ ~IsNone(Pre.stream_id) /\ ~Pre.force /\ last.ret = FALSE
    /\ ~IsNone(first_award[Get(Pre.stream_id)])
    /\ Get(first_award[Get(Pre.stream_id)]) # last.arg

\* C5: award_tokens triggers the token-gain event once when a non-forced
\* award returns true and never otherwise; with no stream active it returns
\* false, also when forced, and leaves the ledger as it was.
C5_GainEvent ==
    last.op = "award_tokens" =>
        /\ events = (IF ~Pre.force /\ last.ret THEN 1 ELSE 0)
        /\ IsNone(Pre.stream_id) => (last.ret = FALSE /\ tokens = Pre.tokens /\ events = 0)

C5_Witness ==
    last.op = "award_tokens" /\ ~Pre.force /\ last.ret = TRUE /\ events = 1

AllInts(led) == \A sid \in Fields(led) : Get(led[sid]).int
AllZero(led) == \A sid \in Fields(led) : led[sid] = Some(IntText(0))

\* C6: on a ledger of non-negative integers with sum S (no sessions and
\* all-zero balances included), spend_tokens(S) returns true and leaves every
\* balance 0, and spend_tokens(S + 1) returns false and leaves them decremented.
C6_SpendExactSum ==
    (last.op = "spend_tokens" /\ AllInts(Pre.tokens)) =>
        /\ last.arg = get_tokens(Pre.tokens) => (last.ret = TRUE /\ AllZero(tokens))
        /\ last.arg = get_tokens(Pre.tokens) + 1 => (last.ret = FALSE /\ AllZero(tokens))

\* The part of C6 with a sum above zero.
C6_SpendExactPositiveSum ==
    (last.op = "spend_tokens" /\ AllInts(Pre.tokens)) =>
        /\ (last.arg = get_tokens(Pre.tokens) /\ last.arg > 0) => (last.ret = TRUE /\ AllZero(tokens))
        /\ last.arg = get_tokens(Pre.tokens) + 1 => (last.ret = FALSE /\ AllZero(tokens))

\* C7: with warnings enabled, a policy of N chances and base timeout B, and no
\* warning key expiring in between, the k-th call of timeout returns B * k
\* with a warning label and sets exactly one key that was unset, for k up to
\* N; later calls return the requested length with the plain label and set no
\* key. With use_warnings false or no policy the requested length comes back
\* and no key is written.
C7_Escalation ==
    last.op = "timeout" =>
        LET N == warning_module.total_chances
            B == warning_module.base_timeout
            plain == /\ Pre.timeout_length = last.arg
                     /\ Pre.punishment = Punishment(last.arg, FALSE)
                     /\ Pre.after = Pre.before
        IN IF last.ret
           THEN ~IsNone(Pre.k) =>
                  IF Get(Pre.k) <= N
                  THEN /\ Pre.timeout_length = B * Get(Pre.k)
                       /\ Pre.punishment = Punishment(B * Get(Pre.k), TRUE)
                       /\ \E id \in get_warning_keys(N) \ Pre.before :
                             Pre.after = Pre.before \cup {id}
                  ELSE plain
           ELSE plain

C7_Witness ==
    /\ last.op = "timeout" /\ last.ret
    /\ warning_module.total_chances >= 2
    /\ Pre.k = Some(warning_module.total_chances + 1)

\* C9: a read of ignored or banned returns the last value written through
\* the setter, on the façade that wrote it and on one constructed afterwards,
\* which loads from the store; a load gives true exactly when the hash field
\* is present, whatever it holds.
C9_BoolRoundTrip ==
    (last.op = "kv_read" /\ last.arg \in Elems(BOOL_KEYS)) =>
        /\ ~IsNone(written[last.arg]) => last.ret = Get(written[last.arg]).value
        /\ Pre.loaded_now => last.ret = ~IsNone(redis[last.arg])

\* A later façade's first read of a flag that an earlier one switched off.
C9_Witness ==
    /\ last.op = "kv_read" /\ last.arg = "banned" /\ Pre.loaded_now
    /\ ~IsNone(written["banned"])
    /\ Get(written["banned"]).by < instance
    /\ Get(written["banned"]).value = FALSE

\* C10: on one façade the query-or-create load and the batched key-value load
\* each run at most once, on the first access that needs them; the relational
\* load never runs when a record was supplied at construction, and a
\* key-value setter runs no batched load.
C10_LoadAtMostOnce ==
    /\ sqlLoads = (IF model_loaded /\ ~supplied THEN 1 ELSE 0)
    /\ redisLoads = (IF redis_loaded THEN 1 ELSE 0)
    /\ last.op = "kv_write" => redisLoads = Pre.redisLoads

\* Both loads have run, and reads, writes and a save came after them.
C10_Witness ==
    /\ sqlLoads = 1 /\ redisLoads = 1
    /\ ~IsNone(cache[username])
    /\ last.op = "kv_write"

\* The sum of a list, from its end.
RECURSIVE SumTo(_, _)
SumTo(s, i) == IF i = 0 THEN 0 ELSE s[i] + SumTo(s, i - 1)

BagOf(s) == [x \in {s[i] : i \in DOMAIN s} |-> Cardinality({i \in DOMAIN s : s[i] = x})]

\* C8: create_debt(d) followed by pay_debt(d) leaves the debt list with the
\* entries it had before create_debt and the balance lower by d;
\* points_available() is the balance minus the sum of the debts, and
\* can_afford(n) is true exactly when that difference is at least n.
C8_DebtRoundTrip ==
    /\ (last.op = "pay_debt" /\ ~IsNone(last.rt)) =>
          /\ BagOf(debts) = BagOf(Pre.debts)
          /\ Balance = Pre.points - last.arg
    /\ last.op = "points_available" => last.arg = last.points - SumTo(debts, Len(debts))
    /\ last.op = "can_afford" =>
          (last.ret <=> last.points - SumTo(debts, Len(debts)) >= last.arg)

\* An earlier, equal debt is the one that goes: the order changes, the entries do not.
C8_Witness ==
    /\ last.op = "pay_debt" /\ ~IsNone(last.rt)
    /\ Pre.debts # <<>> /\ last.arg > 0 /\ debts # Pre.debts

\* C11: a read of id, level or subscriber returns the cached value without a
\* load (model_loaded, the record and the store unchanged) when the cache has
\* an entry for the username, and otherwise loads the record and returns the
\* record's value.
C11_CacheFirstRead ==
    [][\A field \in CacheFields :
         sql_read(field) =>
            IF ~IsNone(cache[username])
            THEN /\ last'.ret = Get(cache[username])[field]
                 /\ UNCHANGED <<model_loaded, user_model, sqlLoads, db>>
            ELSE /\ model_loaded'
                 /\ user_model' = Some(IF model_loaded THEN Get(user_model)
                                       ELSE select_or_create(db, username))
                 /\ last'.ret = Get(user_model')[field]
                 /\ db' = db]_vars

\* A hit on a façade that never loaded, returning a level the store does not hold.
C11_Witness ==
    /\ last.op = "sql_read" /\ last.arg = "level"
    /\ Pre.hit /\ ~model_loaded
    /\ ~IsNone(db[username]) /\ Get(db[username]).level # last.ret

\* C12: a subscriber write whose value equals the cached subscriber value of
\* the username changes nothing (no load, record, cache and store unchanged);
\* any other subscriber write loads the record and sets its subscriber field.
C12_SubscriberShortCircuit ==
    [][\A value \in BOOLEAN :
         write_subscriber(value) =>
            IF ~IsNone(cache[username]) /\ Get(cache[username]).subscriber = value
            THEN UNCHANGED <<model_loaded, user_model, sqlLoads, db, cache>>
            ELSE /\ model_loaded'
                 /\ user_model' =
                      Some([(IF model_loaded THEN Get(user_model)
                             ELSE select_or_create(db, username))
                            EXCEPT !.subscriber = value])
                 /\ UNCHANGED <<db, cache>>]_vars

\* A skipped write on a façade that never loaded.
C12_Witness ==
    /\ last.op = "write_subscriber"
    /\ Pre.hit /\ Get(cache[username]).subscriber = last.ret
    /\ ~model_loaded /\ sqlLoads = 0

\* C13: sql_save on a loaded instance leaves the cache entry of the username
\* equal to the record's (id, level, subscriber) whatever save_to_db and the
\* session mode are, and writes the store only when save_to_db is true and
\* no shared session is used; on an instance that never loaded it changes
\* neither the store nor the cache.
C13_SaveRefreshesCache ==
    [][\A save_to_db \in BOOLEAN :
         sql_save(save_to_db) =>
            IF model_loaded
            THEN /\ ~IsNone(cache'[username])
                 /\ Get(cache'[username]) = [id |-> Get(user_model').id,
                                             level |-> Get(user_model').level,
                                             subscriber |-> Get(user_model').subscriber]
                 /\ IF save_to_db /\ ~shared_db_session
                    THEN db' = [db EXCEPT ![username] = user_model']
                    ELSE db' = db
            ELSE UNCHANGED <<db, cache>>]_vars

\* A save with save_to_db in shared-session mode: the cache holds the record's
\* level, the store does not.
C13_Witness ==
    /\ last.op = "sql_save" /\ last.ret /\ shared_db_session
    /\ Pre.model_loaded
    /\ Get(cache[username]).level = Get(user_model).level
    /\ (IsNone(db[username]) \/ Get(db[username]).level # Get(user_model).level)

\* C14: UserSQLCache.save overwrites the whole entry of its username and no
\* other entry; get misses exactly when the username has no entry or the
\* field is not id, level or subscriber, and returns the stored value
\* otherwise, false and None included; after a clear no username has an
\* entry until the next save for it.
C14_CacheContract ==
    [][/\ last'.op = "cache_get" =>
            LET entry == cache'[Get(last'.rt).name] IN
            /\ IsNone(last'.ret) <=>
                  (IsNone(entry) \/ last'.arg \notin {"id", "level", "subscriber"})
            /\ ~IsNone(last'.ret) => Get(last'.ret) = Get(entry)[last'.arg]
       /\ \A save_to_db \in BOOLEAN :
            (sql_save(save_to_db) /\ model_loaded) =>
               /\ \A u \in Users \ {username} : cache'[u] = cache[u]
               /\ DOMAIN Get(cache'[username]) = {"id", "level", "subscriber"}
               /\ \A f \in DOMAIN Get(cache'[username]) :
                     Get(cache'[username])[f] = Get(user_model')[f]
       /\ clear_cache => \A u \in Users : IsNone(cache'[u])
       /\ \A u \in Users :
            (IsNone(cache[u]) /\ ~IsNone(cache'[u])) =>
               (username = u /\ last'.op = "sql_save")]_vars

\* A hit that returns the stored None of an entry saved for a new record.
C14_Witness ==
    /\ last.op = "cache_get" /\ last.arg = "id"
    /\ Pre.name = username
    /\ last.ret = Some(None)

\* C15: pay_debt(d) for a d that is not in the debt list does not raise,
\* lowers the balance by d and leaves the debt list unchanged.
C15_PayAbsentDebt ==
    [][\A d \in DebtAmounts :
         (pay_debt(d) /\ \A i \in DOMAIN debts : debts[i] # d) =>
            /\ last'.ret
            /\ Get(user_model').points = Balance - d
            /\ debts' = debts]_vars

\* A payment that removed nothing from a full list that does not hold it.
C15_Witness ==
    /\ last.op = "pay_debt" /\ last.ret
    /\ Len(debts) = MaxDebts
    /\ \A i \in DOMAIN debts : debts[i] # last.arg

\* C16: on a ledger whose integer balances are not negative, spend_tokens(n)
\* with n >= 0 raises no balance, makes none negative, leaves entries that are
\* not integers (and sessions without an entry) as they were; when it returns
\* true the get_tokens() total is lower by exactly n, and when it returns
\* false the total afterwards is 0.
C16_TokenConservation ==
    last.op = "spend_tokens" =>
        /\ \A sid \in Sessions :
              LET before == Pre.tokens[sid]
                  after == tokens[sid]
              IN IF IsNone(before) THEN IsNone(after)
                 ELSE IF ~Get(before).int THEN after = before
                 ELSE /\ ~IsNone(after) /\ Get(after).int
                      /\ Get(after).n >= 0
                      /\ Get(after).n <= Get(before).n
        /\ last.ret => get_tokens(tokens) = get_tokens(Pre.tokens) - last.arg
        /\ ~last.ret => get_tokens(tokens) = 0

\* A spend that ran out of balances next to an entry that is not an integer.
C16_Witness ==
    /\ last.op = "spend_tokens" /\ ~last.ret /\ last.arg > 0
    /\ \E sid \in Sessions : Pre.tokens[sid] = Some(BadText) /\ tokens[sid] = Some(BadText)
    /\ \E sid \in Sessions : Pre.tokens[sid] # tokens[sid]

\* C17: with no other writer and no cache clear, an sql_save that follows
\* subscriber writes on one façade leaves the record and the cache entry with
\* the subscriber value of the last write.
C17_LastWriteWins ==
    (last.op = "sql_save" /\ ~IsNone(written["subscriber"])) =>
        LET value == Get(written["subscriber"]).value IN
        /\ model_loaded => Get(user_model).subscriber = value
        /\ ~IsNone(cache[username])
        /\ Get(cache[username]).subscriber = value

\* C18: a read of level (or id) that immediately follows a write of that
\* field on the same façade returns the value just written, whether or not
\* the cache holds an entry for the username.
C18_ReadYourWrites ==
    [][(last.op = "sql_write" /\ last'.op = "sql_read" /\ last'.arg = last.arg) =>
          last'.ret = last.ret]_vars

\* C19: constructing a façade for a username changes neither the key-value
\* store nor the relational store, so a display name stored through the
\* username_raw setter is still there for the façade constructed afterwards.
C19_ConstructChangesNoStore ==
    [][(instance' # instance /\ last'.op = "construct") =>
          (redis' = redis /\ db' = db)]_vars

\* C20: from a balance of 0 or more and no debts, with create_debt(d) made
\* only when can_afford(d), spend_points(n) for n >= 0 and pay_debt(d) for a
\* d in the list, the balance is never negative and points_available() is
\* never negative.
C20_ReservedPointsKept ==
    /\ Balance >= 0
    /\ points_available >= 0

\* C21: with this instance the only writer, a write of v to num_lines,
\* ignored, banned or username_raw followed by the instance's first read of
\* the field (the one that runs the batched load) returns v, and after the
\* load every in-memory value is the decoding of what the store holds.
C21_WriteSurvivesLoad ==
    [][(last.op = "kv_write" /\ last'.op = "kv_read" /\ last'.arg = last.arg
          /\ Get(last'.rt).loaded_now) =>
          /\ last'.ret = last.ret
          /\ values' = load_redis_data([i \in DOMAIN FULL_KEYS |-> redis'[FULL_KEYS[i]]])]_vars

====
